---- MODULE Spec2Model ----
(***************************************************************************)
(* A model of the numeric kernels of src/client/src/wasm/src/lib.rs:       *)
(* fibonacci, matrix_multiply, grayscale, adjust_brightness, quicksort and *)
(* calculate_primes.  Every kernel is a single synchronous call; each is   *)
(* modelled as its own state machine (one specification per kernel) whose  *)
(* actions are the steps of the kernel's loops.                            *)
(*                                                                         *)
(* Fixed-width unsigned integers (u32, u64) and the f64 values of the      *)
(* luminosity sum are held as little-endian sequences of base-2^8 digits,  *)
(* so that their full width is kept although TLC's own integers are 32-bit.*)
(***************************************************************************)
EXTENDS Integers, Sequences, FiniteSets

VARIABLES
    overflow_checks,  \* build profile: TRUE = integer overflow panics (dev/test), FALSE = wraps (release)
    fib,              \* the fibonacci call
    mat,              \* the matrix_multiply call
    pix,              \* the grayscale / adjust_brightness call
    qs,               \* the quicksort call
    sieve             \* the calculate_primes call

vars == <<overflow_checks, fib, mat, pix, qs, sieve>>

\* A kernel that is not being called in the specification at hand.
Idle == [pc |-> "idle"]

(***************************************************************************)
(* Fixed-width unsigned arithmetic on digit sequences.                     *)
(***************************************************************************)
Base == 2^8

RECURSIVE ToDigits(_, _)
\* The w-digit representation of the natural number x (x < Base^w).
ToDigits(x, w) ==
    IF w = 0 THEN <<>> ELSE <<x % Base>> \o ToDigits(x \div Base, w - 1)

RECURSIVE Val(_)
\* The number a digit sequence stands for (used only where it is small).
Val(d) == IF d = <<>> THEN 0 ELSE Head(d) + Base * Val(Tail(d))

RECURSIVE AddCarry(_, _, _)
\* a + b + c for equally long a, b: Len(a) digits followed by the carry out.
AddCarry(a, b, c) ==
    IF a = <<>> THEN <<c>>
    ELSE LET s == Head(a) + Head(b) + c
         IN  <<s % Base>> \o AddCarry(Tail(a), Tail(b), s \div Base)

\* Unsigned addition at the width of a: the wrapped sum and whether it overflowed.
UAdd(a, b) ==
    LET r == AddCarry(a, b, 0)
    IN  [value |-> SubSeq(r, 1, Len(a)), overflow |-> r[Len(a) + 1] # 0]

RECURSIVE MulSmall(_, _, _)
\* a * m + c for a digit sequence a and a number m < Base^2: Len(a) digits
\* followed by the carry out (a number).
MulSmall(a, m, c) ==
    IF a = <<>> THEN <<c>>
    ELSE LET s == Head(a) * m + c
         IN  <<s % Base>> \o MulSmall(Tail(a), m, s \div Base)

RECURSIVE Cmp(_, _)
\* -1, 0 or 1 as a < b, a = b or a > b (equally long digit sequences).
Cmp(a, b) ==
    IF a = <<>> THEN 0
    ELSE LET hi == Cmp(Tail(a), Tail(b))
         IN  IF hi # 0 THEN hi
             ELSE IF Head(a) < Head(b) THEN -1
             ELSE IF Head(a) > Head(b) THEN 1 ELSE 0

RECURSIVE MulDigits(_, _)
\* The full product a * b, Len(a) + Len(b) digits.
MulDigits(a, b) ==
    IF b = <<>> THEN [k \in 1..Len(a) |-> 0]
    ELSE LET row  == MulSmall(a, Head(b), 0) \o [k \in 1..(Len(b) - 1) |-> 0]
             rest == <<0>> \o MulDigits(a, Tail(b))
         IN  SubSeq(AddCarry(row, rest, 0), 1, Len(a) + Len(b))

\* Unsigned multiplication at the width of a: the wrapped product and whether
\* it overflowed.
UMul(a, b) ==
    LET r == MulDigits(a, b)
    IN  [value |-> SubSeq(r, 1, Len(a)),
         overflow |-> \E k \in (Len(a) + 1)..Len(r) : r[k] # 0]

U64Digits == 8
U32Digits == 4
U64(x) == ToDigits(x, U64Digits)
U32(x) == ToDigits(x, U32Digits)
U32Max == [k \in 1..U32Digits |-> Base - 1]

(***************************************************************************)
(* fibonacci(n: u32) -> u64                                                *)
(***************************************************************************)
MaxFibN == 95

FibIdleVars == <<mat, pix, qs, sieve>>

InitFib ==
    /\ overflow_checks \in BOOLEAN
    /\ \E n \in 0..MaxFibN :
          fib = [pc |-> "call", n |-> n, a |-> U64(0), b |-> U64(0),
                 k |-> 0, result |-> U64(0)]
    /\ mat = Idle /\ pix = Idle /\ qs = Idle /\ sieve = Idle

\* match n { 0 => 0, 1 => 1, _ => { a = 0; b = 1; for _ in 2..=n ... } }
FibMatch ==
    /\ fib.pc = "call"
    /\ fib' = IF fib.n = 0 THEN [fib EXCEPT !.pc = "done", !.result = U64(0)]
              ELSE IF fib.n = 1 THEN [fib EXCEPT !.pc = "done", !.result = U64(1)]
              ELSE [fib EXCEPT !.pc = "loop", !.a = U64(0), !.b = U64(1), !.k = 2]
    /\ UNCHANGED <<overflow_checks, FibIdleVars>>

\* One pass of the loop body: temp = a + b; a = b; b = temp.  The u64 addition
\* panics on overflow when the build checks overflow and wraps otherwise.
FibStep ==
    /\ fib.pc = "loop"
    /\ fib.k <= fib.n
    /\ LET temp == UAdd(fib.a, fib.b)
       IN  fib' = IF temp.overflow /\ overflow_checks
                  THEN [fib EXCEPT !.pc = "panic"]
                  ELSE [fib EXCEPT !.a = fib.b, !.b = temp.value, !.k = fib.k + 1]
    /\ UNCHANGED <<overflow_checks, FibIdleVars>>

\* The range 2..=n is exhausted: the match arm's value is b.
FibReturn ==
    /\ fib.pc = "loop"
    /\ fib.k > fib.n
    /\ fib' = [fib EXCEPT !.pc = "done", !.result = fib.b]
    /\ UNCHANGED <<overflow_checks, FibIdleVars>>

NextFib == FibMatch \/ FibStep \/ FibReturn

SpecFib == InitFib /\ [][NextFib]_vars

\* Arithmetic modulo 2^64 on digit sequences.
Plus64(a, b) == UAdd(a, b).value
Times64(a, b) == UMul(a, b).value
Minus64(a, b) == Plus64(Plus64(a, [k \in 1..Len(b) |-> Base - 1 - b[k]]), U64(1))

\* <<F(2k), F(2k+1)>> from p = <<F(k), F(k+1)>>, modulo 2^64, by the doubling
\* identities F(2k) = F(k) * (2 F(k+1) - F(k)) and F(2k+1) = F(k)^2 + F(k+1)^2.
FibDouble(p) ==
    <<Times64(p[1], Minus64(Plus64(p[2], p[2]), p[1])),
      Plus64(Times64(p[1], p[1]), Times64(p[2], p[2]))>>

RECURSIVE FibPairMod64(_)
\* <<F(n), F(n+1)>> reduced modulo 2^64.
FibPairMod64(n) ==
    IF n = 0 THEN <<U64(0), U64(1)>>
    ELSE LET half == FibPairMod64(n \div 2)
         IN  IF Len(half) # 2 THEN <<>>   \* (half is computed here, once)
             ELSE LET q == FibDouble(half)
                  IN  IF n % 2 = 0 THEN q ELSE <<q[2], Plus64(q[1], q[2])>>

\* C4: for every n, fibonacci(n) returns without error the n-th Fibonacci
\* number reduced modulo 2^64 (an overflowing addition wraps silently).
C4_FibonacciWrapsSilently ==
    /\ fib.pc # "panic"
    /\ fib.pc = "done" => fib.result = FibPairMod64(fib.n)[1]

(***************************************************************************)
(* matrix_multiply(a: Vec<f64>, b: Vec<f64>, n: usize) -> Vec<f64>         *)
(* Vectors are functions on 0..len-1, as the code indexes them.  Entries   *)
(* are small integers, which f64 holds, multiplies and adds exactly.       *)
(***************************************************************************)
MaxSide == 3
MaxSeed == 2
MatModulus == 5

\* The n-by-n identity, row-major.
Identity(n) == [x \in 0..(n * n - 1) |-> IF x \div n = x % n THEN 1 ELSE 0]

\* The input matrices of side n the model draws from: entries in -2..2 laid
\* out by a stride p and an offset q, and the identity.
MatInputs(n) ==
    { [x \in 0..(n * n - 1) |-> ((p * x + q) % MatModulus) - 2] :
        p \in 0..MaxSeed, q \in 0..MaxSeed } \cup {Identity(n)}

MatIdleVars == <<overflow_checks, fib, pix, qs, sieve>>

InitMat ==
    /\ overflow_checks = FALSE   \* not read: no integer of this kernel can overflow
    /\ \E n \in 0..MaxSide : \E a \in MatInputs(n), b \in MatInputs(n) :
          mat = [pc |-> "call", n |-> n, a |-> a, b |-> b, result |-> <<>>,
                 i |-> 0, j |-> 0, k |-> 0, sum |-> 0]
    /\ fib = Idle /\ pix = Idle /\ qs = Idle /\ sieve = Idle

\* a[i * n + k] * b[k * n + j]
MatTermTransposed(a, b, n, i, j, k) == a[i * n + k] * b[j * n + k]
MatTerm(a, b, n, i, j, k) == a[i * n + k] * b[k * n + j]

\* let mut result = vec![0.0; n * n]; the loop over i starts.
MatAlloc ==
    /\ mat.pc = "call"
    /\ mat' = [mat EXCEPT !.pc = "row", !.i = 0,
                          !.result = [x \in 0..(mat.n * mat.n - 1) |-> 0]]
    /\ UNCHANGED MatIdleVars

\* for i in 0..n: the loop over j starts for row i.
MatRow ==
    /\ mat.pc = "row"
    /\ mat.i < mat.n
    /\ mat' = [mat EXCEPT !.pc = "col", !.j = 0]
    /\ UNCHANGED MatIdleVars

\* for j in 0..n: let mut sum = 0.0; the loop over k starts.
MatCol ==
    /\ mat.pc = "col"
    /\ mat.j < mat.n
    /\ mat' = [mat EXCEPT !.pc = "dot", !.k = 0, !.sum = 0]
    /\ UNCHANGED MatIdleVars

\* for k in 0..n: sum += a[i * n + k] * b[k * n + j]
MatDot ==
    /\ mat.pc = "dot"
    /\ mat.k < mat.n
    /\ mat' = [mat EXCEPT !.sum = mat.sum + MatTerm(mat.a, mat.b, mat.n, mat.i, mat.j, mat.k),
                          !.k = mat.k + 1]
    /\ UNCHANGED MatIdleVars

\* The loop over k is over: result[i * n + j] = sum; next j.
MatStore ==
    /\ mat.pc = "dot"
    /\ mat.k >= mat.n
    /\ mat' = [mat EXCEPT !.result[mat.i * mat.n + mat.j] = mat.sum,
                          !.j = mat.j + 1, !.pc = "col"]
    /\ UNCHANGED MatIdleVars

\* The loop over j is over: next i.
MatRowEnd ==
    /\ mat.pc = "col"
    /\ mat.j >= mat.n
    /\ mat' = [mat EXCEPT !.i = mat.i + 1, !.pc = "row"]
    /\ UNCHANGED MatIdleVars

\* The loop over i is over: result is returned.
MatReturn ==
    /\ mat.pc = "row"
    /\ mat.i >= mat.n
    /\ mat' = [mat EXCEPT !.pc = "done"]
    /\ UNCHANGED MatIdleVars

NextMat ==
    MatAlloc \/ MatRow \/ MatCol \/ MatDot \/ MatStore \/ MatRowEnd \/ MatReturn

SpecMat == InitMat /\ [][NextMat]_vars

RECURSIVE RowByColumn(_, _, _, _, _, _)
\* The sum over k in 0..m-1 of a[i*n+k] * b[k*n+j].
RowByColumn(a, b, n, i, j, m) ==
    IF m = 0 THEN 0
    ELSE RowByColumn(a, b, n, i, j, m - 1) + a[i * n + (m - 1)] * b[(m - 1) * n + j]

F64Bits == 53

\* 0.299_f64 = 0x3FD322D0E5604189, 0.587_f64 = 0x3FE2C8B439581062 and
\* 0.114_f64 = 0x3FBD2F1A9FBE76C9, each times 2^56.
F64_0_299 == <<36, 6, 129, 149, 67, 139, 76, 0>>
F64_0_587 == <<16, 131, 192, 202, 161, 69, 150, 0>>
F64_0_114 == <<201, 118, 190, 159, 26, 47, 29, 0>>

RECURSIVE BitLen(_)
\* The number of significant bits of the natural number x.
BitLen(x) == IF x = 0 THEN 0 ELSE 1 + BitLen(x \div 2)

RECURSIVE DigitsBitLen(_)
\* The number of significant bits of a digit sequence.
DigitsBitLen(d) ==
    IF d = <<>> THEN 0
    ELSE IF d[Len(d)] # 0 THEN 8 * (Len(d) - 1) + BitLen(d[Len(d)])
    ELSE DigitsBitLen(SubSeq(d, 1, Len(d) - 1))

\* The exact value d rounded to F64Bits significant bits, ties to even.  At
\* most 11 low bits are dropped, all of them in the two lowest digits.
Round53(d) ==
    LET len == DigitsBitLen(d)
    IN  IF len <= F64Bits THEN d
        ELSE LET s    == len - F64Bits
                 low  == d[1] + Base * d[2]
                 rem  == low % (2^s)
                 half == 2^(s - 1)
                 odd  == (low \div (2^s)) % 2 = 1
                 up   == rem > half \/ (rem = half /\ odd)
                 kept == low - rem
                 cut  == <<kept % Base, kept \div Base>> \o SubSeq(d, 3, Len(d))
                 inc  == ToDigits(IF up THEN 2^s ELSE 0, Len(d))
             IN  SubSeq(AddCarry(cut, inc, 0), 1, Len(d))

\* c * (v as f64) for an f64 constant c and a byte v.
F64MulByte(c, v) == Round53(SubSeq(MulSmall(c, v, 0), 1, Len(c)))

\* x + y in f64.
F64Add(x, y) == Round53(SubSeq(AddCarry(x, y, 0), 1, Len(x)))

\* (0.299 * r + 0.587 * g + 0.114 * b) as u8: the sum is below 256, and the
\* cast drops the 56 fraction bits.
Luminosity(r, g, b) ==
    LET sum == F64Add(F64Add(F64MulByte(F64_0_299, r), F64MulByte(F64_0_587, g)),
                      F64MulByte(F64_0_114, b))
    IN  sum[8]

(***************************************************************************)
(* adjust_brightness arithmetic.  A factor is fnum / 2^FactorShift, a      *)
(* dyadic rational, so that (byte as f64) * factor is exact in f64; an f64 *)
(* value is then the numerator p of p / 2^FactorShift.                     *)
(***************************************************************************)
FactorShift == 2
FactorDen == 2^FactorShift

\* Rounding toward zero of p / FactorDen.
TruncToZero(p) == IF p < 0 THEN -((-p) \div FactorDen) ELSE p \div FactorDen

\* x.min(255.0)
Min255(p) == IF p > 255 * FactorDen THEN 255 * FactorDen ELSE p

\* x as u8: a float-to-integer cast truncates toward zero and saturates at
\* the bounds of the integer type.
F64AsU8Wrapping(p) == TruncToZero(p) % 256
F64AsU8(p) ==
    LET t == TruncToZero(p)
    IN  IF t < 0 THEN 0 ELSE IF t > 255 THEN 255 ELSE t

\* ((v as f64 * factor).min(255.0)) as u8
BrightenUnclamped(v, fnum) == F64AsU8Wrapping(v * fnum)
Brighten(v, fnum) == F64AsU8(Min255(v * fnum))

(***************************************************************************)
(* grayscale(data: &mut [u8]) and adjust_brightness(data: &mut [u8], f64)  *)
(***************************************************************************)
MaxPixLen == 9
MaxStep == 1
MaxFactor == 9
MaxNegFactor == 3

\* The buffers the model draws from: every byte value as a start, bytes
\* advancing by a fixed step, at every length; and two buffers of the
\* kernels' documentation.
GenBuffers ==
    { [x \in 0..(len - 1) |-> (base + step * x) % 256] :
        len \in 0..MaxPixLen, base \in 0..255, step \in 0..MaxStep }
ExampleBuffers ==
    { [x \in 0..3 |-> <<255, 0, 0, 255>>[x + 1]],
      [x \in 0..3 |-> <<100, 100, 100, 255>>[x + 1]] }

PixIdleVars == <<overflow_checks, fib, mat, qs, sieve>>

InitPix ==
    /\ overflow_checks = FALSE   \* not read: no integer of these kernels can overflow
    /\ \E data \in GenBuffers \cup ExampleBuffers :
          \/ pix = [pc |-> "chunks", op |-> "grayscale", data |-> data,
                    orig |-> data, fnum |-> FactorDen, c |-> 0]
          \/ \E fnum \in (-MaxNegFactor)..MaxFactor :
                pix = [pc |-> "chunks", op |-> "adjust_brightness", data |-> data,
                       orig |-> data, fnum |-> fnum, c |-> 0]
    /\ fib = Idle /\ mat = Idle /\ qs = Idle /\ sieve = Idle

PixLen == Cardinality(DOMAIN pix.data)

\* The length of chunk c of data.chunks_mut(4).
ChunkLen(c) == IF PixLen - 4 * c >= 4 THEN 4 ELSE PixLen - 4 * c

\* The offsets within a full chunk that the kernels assign to.
RgbaOffsets == {0, 1, 2, 3}
RgbOffsets == {0, 1, 2}

\* data with offset o of full chunk c set to vals[o], for every o that vals
\* assigns.
WriteChunk(c, vals) ==
    [x \in DOMAIN pix.data |->
        IF x \div 4 = c /\ (x % 4) \in DOMAIN vals THEN vals[x % 4] ELSE pix.data[x]]

\* One chunk of grayscale: if chunk.len() == 4, the three channels get gray.
GrayChunk ==
    /\ pix.pc = "chunks"
    /\ pix.op = "grayscale"
    /\ 4 * pix.c < PixLen
    /\ LET gray == Luminosity(pix.data[4 * pix.c], pix.data[4 * pix.c + 1],
                              pix.data[4 * pix.c + 2])
           vals == [o \in RgbOffsets |-> gray]
       IN  pix' = IF ChunkLen(pix.c) = 4
                  THEN [pix EXCEPT !.data = WriteChunk(pix.c, vals), !.c = pix.c + 1]
                  ELSE [pix EXCEPT !.c = pix.c + 1]
    /\ UNCHANGED PixIdleVars

\* One chunk of adjust_brightness: if chunk.len() == 4, each of the three
\* channels is replaced by its own brightened value.
BrightChunk ==
    /\ pix.pc = "chunks"
    /\ pix.op = "adjust_brightness"
    /\ 4 * pix.c < PixLen
    /\ LET vals == [o \in RgbOffsets |-> Brighten(pix.data[4 * pix.c + o], pix.fnum)]
       IN  pix' = IF ChunkLen(pix.c) = 4
                  THEN [pix EXCEPT !.data = WriteChunk(pix.c, vals), !.c = pix.c + 1]
                  ELSE [pix EXCEPT !.c = pix.c + 1]
    /\ UNCHANGED PixIdleVars

\* chunks_mut(4) is exhausted: the kernel returns.
PixReturn ==
    /\ pix.pc = "chunks"
    /\ 4 * pix.c >= PixLen
    /\ pix' = [pix EXCEPT !.pc = "done"]
    /\ UNCHANGED PixIdleVars

NextPix == GrayChunk \/ BrightChunk \/ PixReturn

SpecPix == InitPix /\ [][NextPix]_vars

\* The indices of the R, G, B bytes of the full chunks of the buffer.
RgbIndices == { x \in DOMAIN pix.orig : x % 4 # 3 /\ x < 4 * (PixLen \div 4) }

\* C5: grayscale and adjust_brightness keep the buffer's length, every alpha
\* byte and every byte of a trailing partial chunk; only R, G, B bytes of
\* full chunks may change.
C5_OnlyRgbOfFullChunksChange ==
    /\ DOMAIN pix.data = DOMAIN pix.orig
    /\ \A x \in DOMAIN pix.orig : x \notin RgbIndices => pix.data[x] = pix.orig[x]

\* A kernel has returned on a buffer with two full chunks and a partial one,
\* having changed a byte of it.
C5_Witness ==
    /\ pix.pc = "done"
    /\ PixLen = 9
    /\ pix.orig[3] # pix.orig[0]
    /\ \E x \in RgbIndices : pix.data[x] # pix.orig[x]

\* C6: with a non-negative factor, adjust_brightness replaces each R, G, B of
\* a full chunk by floor(channel * factor) when that product is below 255 and
\* by 255 otherwise.
C6_BrightnessClampsAt255 ==
    (pix.pc = "done" /\ pix.op = "adjust_brightness" /\ pix.fnum >= 0) =>
        \A x \in RgbIndices :
            LET p == pix.orig[x] * pix.fnum
            IN  pix.data[x] = IF p < 255 * FactorDen THEN p \div FactorDen ELSE 255

\* [100,100,100,255] brightened by 2.0 is [200,200,200,255], and a buffer has
\* been brightened with one channel clamped to 255 and another not.
C6_Witness ==
    /\ pix.pc = "done" /\ pix.op = "adjust_brightness" /\ pix.fnum > FactorDen
    /\ \E x, y \in RgbIndices :
          /\ pix.orig[x] * pix.fnum > 255 * FactorDen /\ pix.data[x] = 255
          /\ pix.orig[y] * pix.fnum < 255 * FactorDen /\ pix.data[y] > pix.orig[y]

\* C7 as stated: with a negative factor and a non-zero channel, the stored
\* value is the wrapped cast of the negative product to u8, not 0.
C7_NegativeProductWraps ==
    (pix.pc = "done" /\ pix.op = "adjust_brightness" /\ pix.fnum < 0) =>
        \A x \in RgbIndices :
            pix.orig[x] # 0 => pix.data[x] = F64AsU8Wrapping(pix.orig[x] * pix.fnum)

\* C7 as amended: with a negative factor and a non-zero channel, the stored
\* value is 0: no explicit lower clamp is applied, and the cast of the
\* negative product to u8 saturates at 0.
C7_NegativeProductSaturatesAtZero ==
    (pix.pc = "done" /\ pix.op = "adjust_brightness" /\ pix.fnum < 0) =>
        \A x \in RgbIndices : pix.orig[x] # 0 => pix.data[x] = 0

\* A buffer has been brightened by a negative factor where a non-zero channel's
\* product truncates to a negative integer that is no multiple of 256.
C7_Witness ==
    /\ pix.pc = "done" /\ pix.op = "adjust_brightness" /\ pix.fnum < 0
    /\ \E x \in RgbIndices :
          pix.orig[x] # 0 /\ F64AsU8Wrapping(pix.orig[x] * pix.fnum) # 0

\* floor(0.299*r + 0.587*g + 0.114*b) in exact arithmetic.
LuminosityExact(r, g, b) == (299 * r + 587 * g + 114 * b) \div 1000

\* C8: grayscale sets R, G, B of every full chunk to
\* floor(0.299*R + 0.587*G + 0.114*B), and so leaves a chunk with R = G = B
\* unchanged.
C8_GrayscaleIsFloorOfLuminosity ==
    (pix.pc = "done" /\ pix.op = "grayscale") =>
        \A c \in 0..((PixLen \div 4) - 1) :
            LET r == pix.orig[4 * c]
                g == pix.orig[4 * c + 1]
                b == pix.orig[4 * c + 2]
            IN  /\ \A o \in 0..2 : pix.data[4 * c + o] = LuminosityExact(r, g, b)
                /\ (r = g /\ g = b) => \A o \in 0..3 : pix.data[4 * c + o] = r

(***************************************************************************)
(* quicksort(arr: &mut [f64]), quicksort_recursive and partition.          *)
(* The recursion is an explicit stack of frames, the innermost call last.  *)
(* A frame holds the call's low and high, its place in the body (stage),   *)
(* and partition's pivot, i, j and result pi.  Elements are integers:      *)
(* NaN-free floats, which "<" orders totally.  touched is the set of       *)
(* indices of arr the last step read or wrote.                             *)
(***************************************************************************)
MaxSortLen == 5
MaxSortVal == 2

SortIdleVars == <<overflow_checks, fib, mat, pix, sieve>>

InitSort ==
    /\ overflow_checks = FALSE   \* not read: no integer of this kernel can overflow
    /\ \E len \in 0..MaxSortLen : \E arr \in [0..(len - 1) -> 0..MaxSortVal] :
          qs = [pc |-> "call", arr |-> arr, orig |-> arr, stack |-> <<>>,
                touched |-> {}]
    /\ fib = Idle /\ mat = Idle /\ pix = Idle /\ sieve = Idle

SortLen == Cardinality(DOMAIN qs.orig)

Frame(low, high) ==
    [low |-> low, high |-> high, stage |-> "enter", pivot |-> 0, i |-> 0, j |-> 0,
     pi |-> 0]

Top == qs.stack[Len(qs.stack)]

\* The stack with its top frame replaced by f.
SetTop(f) == [qs.stack EXCEPT ![Len(qs.stack)] = f]

\* The top frame returns: the stack without it, and the whole sort is over
\* when it was the outermost call.
Pop ==
    LET rest == SubSeq(qs.stack, 1, Len(qs.stack) - 1)
    IN  [qs EXCEPT !.stack = rest, !.touched = {},
                   !.pc = IF rest = <<>> THEN "done" ELSE "run"]

\* arr.swap(x, y)
Swap(arr, x, y) == [arr EXCEPT ![x] = arr[y], ![y] = arr[x]]

\* arr[j] < pivot
BelowPivotReversed(v, pivot) == v > pivot
BelowPivot(v, pivot) == v < pivot

\* if pi > 0
LeftGuardMissing(pi) == TRUE
LeftGuard(pi) == pi > 0

\* if arr.len() <= 1 { return; } quicksort_recursive(arr, 0, arr.len() - 1)
QsCall ==
    /\ qs.pc = "call"
    /\ qs' = IF SortLen <= 1 THEN [qs EXCEPT !.pc = "done"]
             ELSE [qs EXCEPT !.pc = "run", !.stack = <<Frame(0, SortLen - 1)>>]
    /\ UNCHANGED SortIdleVars

\* quicksort_recursive is entered: if low < high, partition starts with
\* pivot = arr[high] and i = low; otherwise the call returns.
QsEnter ==
    /\ qs.pc = "run"
    /\ Top.stage = "enter"
    /\ qs' = IF Top.low < Top.high
             THEN [qs EXCEPT !.stack = SetTop([Top EXCEPT !.stage = "part",
                                                          !.pivot = qs.arr[Top.high],
                                                          !.i = Top.low, !.j = Top.low]),
                             !.touched = {Top.high}]
             ELSE Pop
    /\ UNCHANGED SortIdleVars

\* for j in low..high: if arr[j] < pivot { arr.swap(i, j); i += 1; }
PartStep ==
    /\ qs.pc = "run"
    /\ Top.stage = "part"
    /\ Top.j < Top.high
    /\ qs' = IF BelowPivot(qs.arr[Top.j], Top.pivot)
             THEN [qs EXCEPT !.arr = Swap(qs.arr, Top.i, Top.j),
                             !.stack = SetTop([Top EXCEPT !.i = Top.i + 1, !.j = Top.j + 1]),
                             !.touched = {Top.i, Top.j}]
             ELSE [qs EXCEPT !.stack = SetTop([Top EXCEPT !.j = Top.j + 1]),
                             !.touched = {Top.j}]
    /\ UNCHANGED SortIdleVars

\* The loop is over: arr.swap(i, high); partition returns i, which is pi.
PartEnd ==
    /\ qs.pc = "run"
    /\ Top.stage = "part"
    /\ Top.j >= Top.high
    /\ qs' = [qs EXCEPT !.arr = Swap(qs.arr, Top.i, Top.high),
                        !.stack = SetTop([Top EXCEPT !.pi = Top.i, !.stage = "left"]),
                        !.touched = {Top.i, Top.high}]
    /\ UNCHANGED SortIdleVars

\* if pi > 0 { quicksort_recursive(arr, low, pi - 1); }
QsLeft ==
    /\ qs.pc = "run"
    /\ Top.stage = "left"
    /\ qs' = IF LeftGuard(Top.pi)
             THEN [qs EXCEPT !.stack = SetTop([Top EXCEPT !.stage = "right"])
                                          \o <<Frame(Top.low, Top.pi - 1)>>,
                             !.touched = {}]
             ELSE [qs EXCEPT !.stack = SetTop([Top EXCEPT !.stage = "right"]),
                             !.touched = {}]
    /\ UNCHANGED SortIdleVars

\* quicksort_recursive(arr, pi + 1, high)
QsRight ==
    /\ qs.pc = "run"
    /\ Top.stage = "right"
    /\ qs' = [qs EXCEPT !.stack = SetTop([Top EXCEPT !.stage = "ret"])
                                     \o <<Frame(Top.pi + 1, Top.high)>>,
                        !.touched = {}]
    /\ UNCHANGED SortIdleVars

\* Both recursive calls are over: the call returns.
QsReturn ==
    /\ qs.pc = "run"
    /\ Top.stage = "ret"
    /\ qs' = Pop
    /\ UNCHANGED SortIdleVars

NextSort == QsCall \/ QsEnter \/ PartStep \/ PartEnd \/ QsLeft \/ QsRight \/ QsReturn

SpecSort == InitSort /\ [][NextSort]_vars

\* The call runs to completion on the caller's thread: a step that can be
\* taken is taken.
SpecSortFair == SpecSort /\ WF_vars(NextSort)

\* How many entries of f are v.
Count(f, v) == Cardinality({x \in DOMAIN f : f[x] = v})

\* C1: after quicksort returns, arr is non-decreasing and a permutation of
\* its original contents (same length, same multiset of values).
C1_SortedPermutation ==
    qs.pc = "done" =>
        /\ \A x \in DOMAIN qs.arr : (x + 1) \in DOMAIN qs.arr => qs.arr[x] <= qs.arr[x + 1]
        /\ DOMAIN qs.arr = DOMAIN qs.orig
        /\ \A v \in 0..MaxSortVal : Count(qs.arr, v) = Count(qs.orig, v)

\* quicksort has returned on an input of three or more elements that was out
\* of order and held a duplicate value.
C1_Witness ==
    /\ qs.pc = "done"
    /\ SortLen >= 3
    /\ qs.arr # qs.orig
    /\ \E x, y \in DOMAIN qs.orig : x # y /\ qs.orig[x] = qs.orig[y]

\* The number of elements of the range low..high.
RangeSize(f) == IF f.high >= f.low THEN f.high - f.low + 1 ELSE 0

\* What C9 says of every state: no index leaves 0..len-1 and no bound
\* underflows; pi lies in low..high; and each recursive call's range is
\* low..pi-1 or pi+1..high of its caller, so excludes pi and is strictly
\* shorter than the caller's.
C9_Safety ==
    /\ qs.touched \subseteq 0..(SortLen - 1)
    /\ \A k \in 1..Len(qs.stack) :
          LET f == qs.stack[k]
          IN  /\ 0 <= f.low /\ f.low <= SortLen
              /\ 0 <= f.high /\ f.high <= SortLen - 1
              /\ f.stage \in {"left", "right", "ret"} => (f.low <= f.pi /\ f.pi <= f.high)
              /\ f.stage = "part" => (f.low <= f.i /\ f.i <= f.j /\ f.j <= f.high)
    /\ \A k \in 1..(Len(qs.stack) - 1) :
          LET parent == qs.stack[k]
              child  == qs.stack[k + 1]
          IN  /\ parent.stage \in {"right", "ret"}
              /\ parent.stage = "right" =>
                    (child.low = parent.low /\ child.high = parent.pi - 1)
              /\ parent.stage = "ret" =>
                    (child.low = parent.pi + 1 /\ child.high = parent.high)
              /\ ~(child.low <= parent.pi /\ parent.pi <= child.high)
              /\ RangeSize(child) < RangeSize(parent)

MaxPrimeN == 40

\* floor(sqrt(x)): (n as f64).sqrt() as u32.  f64 holds every u32 exactly
\* and its square root is correctly rounded, which never reaches the next
\* integer from below, so the cast yields the integer square root.
ISqrt(x) == CHOOSE r \in 0..x : r * r <= x /\ (r + 1) * (r + 1) > x

SieveIdleVars == <<fib, mat, pix, qs>>

InitSieve ==
    /\ overflow_checks \in BOOLEAN
    /\ \E n \in {U32(x) : x \in 0..MaxPrimeN} \cup {U32Max} :
          sieve = [pc |-> "call", n |-> n, len |-> 0, is_prime |-> <<>>, i |-> 0,
                   limit |-> 0, j |-> U32(0), result |-> <<>>, overflowed |-> FALSE]
    /\ fib = Idle /\ mat = Idle /\ pix = Idle /\ qs = Idle

\* The indices of is_prime still marked, ascending:
\* is_prime.iter().enumerate().filter_map(..).collect()
RECURSIVE Marked(_, _)
Marked(is_prime, upto) ==
    IF upto < 0 THEN <<>>
    ELSE Marked(is_prime, upto - 1) \o (IF is_prime[upto] THEN <<upto>> ELSE <<>>)

\* if n < 2 { return vec![]; }  let mut is_prime = vec![true; (n + 1) as usize];
\* is_prime[0] = false; is_prime[1] = false; and the range 2..=sqrt(n) starts.
\* n + 1 is a u32 addition; an index past the vector's end panics.
SieveCall ==
    /\ sieve.pc = "call"
    /\ LET size == UAdd(sieve.n, U32(1))
       IN  sieve' =
             IF Cmp(sieve.n, U32(2)) < 0 THEN [sieve EXCEPT !.pc = "done", !.result = <<>>]
             ELSE IF size.overflow /\ overflow_checks
                  THEN [sieve EXCEPT !.pc = "panic", !.overflowed = TRUE]
             ELSE LET len == Val(size.value)
                  IN  IF len < 2
                      THEN [sieve EXCEPT !.pc = "panic", !.len = len,
                                         !.overflowed = size.overflow]
                      ELSE [sieve EXCEPT !.pc = "outer", !.len = len,
                                         !.overflowed = size.overflow,
                                         !.is_prime = [x \in 0..(len - 1) |-> x >= 2],
                                         !.i = 2, !.limit = ISqrt(Val(sieve.n))]
    /\ UNCHANGED <<overflow_checks, SieveIdleVars>>

\* for i in 2..=limit: if is_prime[i] { let mut j = i * i; ... }
SieveOuter ==
    /\ sieve.pc = "outer"
    /\ sieve.i <= sieve.limit
    /\ LET sq == UMul(U32(sieve.i), U32(sieve.i))
       IN  sieve' =
             IF ~sieve.is_prime[sieve.i] THEN [sieve EXCEPT !.i = sieve.i + 1]
             ELSE IF sq.overflow /\ overflow_checks
                  THEN [sieve EXCEPT !.pc = "panic", !.overflowed = TRUE]
             ELSE [sieve EXCEPT !.pc = "inner", !.j = sq.value,
                                !.overflowed = sieve.overflowed \/ sq.overflow]
    /\ UNCHANGED <<overflow_checks, SieveIdleVars>>

\* while j <= n { is_prime[j] = false; j += i; }
SieveMark ==
    /\ sieve.pc = "inner"
    /\ Cmp(sieve.j, sieve.n) <= 0
    /\ LET next == UAdd(sieve.j, U32(sieve.i))
       IN  sieve' =
             IF Val(sieve.j) >= sieve.len THEN [sieve EXCEPT !.pc = "panic"]
             ELSE IF next.overflow /\ overflow_checks
                  THEN [sieve EXCEPT !.pc = "panic", !.overflowed = TRUE,
                                     !.is_prime[Val(sieve.j)] = FALSE]
             ELSE [sieve EXCEPT !.is_prime[Val(sieve.j)] = FALSE, !.j = next.value,
                                !.overflowed = sieve.overflowed \/ next.overflow]
    /\ UNCHANGED <<overflow_checks, SieveIdleVars>>

\* The while loop is over (j > n): the next i.
SieveInnerEnd ==
    /\ sieve.pc = "inner"
    /\ Cmp(sieve.j, sieve.n) > 0
    /\ sieve' = [sieve EXCEPT !.pc = "outer", !.i = sieve.i + 1]
    /\ UNCHANGED <<overflow_checks, SieveIdleVars>>

\* The range is exhausted: the marked indices are collected and returned.
SieveCollect ==
    /\ sieve.pc = "outer"
    /\ sieve.i > sieve.limit
    /\ sieve' = [sieve EXCEPT !.pc = "done",
                              !.result = Marked(sieve.is_prime, sieve.len - 1)]
    /\ UNCHANGED <<overflow_checks, SieveIdleVars>>

NextSieve == SieveCall \/ SieveOuter \/ SieveMark \/ SieveInnerEnd \/ SieveCollect

SpecSieve == InitSieve /\ [][NextSieve]_vars

\* p is a prime number.
IsPrime(p) == p >= 2 /\ \A d \in 2..(p - 1) : p % d # 0

RECURSIVE PrimesUpTo(_)
\* The primes p <= m, ascending.
PrimesUpTo(m) ==
    IF m < 2 THEN <<>>
    ELSE PrimesUpTo(m - 1) \o (IF IsPrime(m) THEN <<m>> ELSE <<>>)

\* C2: for every n, calculate_primes(n) returns exactly the primes p with
\* 2 <= p <= n, each once, ascending (the empty sequence for n < 2).
C2_ReturnsPrimesUpToN ==
    /\ sieve.pc # "panic"
    /\ sieve.pc = "done" => sieve.result = PrimesUpTo(Val(sieve.n))

\* C10: for every n up to 2^32 - 1, no unsigned value calculate_primes
\* computes (n + 1, i * i, j + i) exceeds the 32-bit range, so that the
\* marker array has n + 1 entries and every index written is at most n.
C10_NoIntermediateOverflow ==
    /\ ~sieve.overflowed
    /\ sieve.pc \in {"outer", "inner"} => sieve.len = Val(sieve.n) + 1

====
